---- MODULE Spec2Model ----
(***************************************************************************)
(* Model of JSON_TO_PDF/JSON_TO_DRAW_PDF.py: the text normalizer, the data *)
(* mapper build_field_values, the AcroForm writer fill_pdf and the command *)
(* line pipeline main -> generate_draw_pdf -> fill_pdf -> refresh.         *)
(*                                                                         *)
(* Python values are tagged records: k is the Python type, the payload is  *)
(* s (str, a sequence of code points), n (int), b (bool), l (list) or      *)
(* d (dict, a function from key to value; an absent key is outside its     *)
(* domain).  Texts are sequences of Unicode code points so that space      *)
(* replacement, case folding and stripping are computed, not assumed.      *)
(***************************************************************************)
EXTENDS Integers, Sequences, FiniteSets, TLC

VARIABLES
    nt_arg,        \* normalize_text: the argument s
    nt_ret,        \* normalize_text: [done, s] the returned text
    draw_data,     \* build_field_values: the input record
    bf,            \* build_field_values: [state, idx, fields]
    pc,            \* pipeline: position of the run
    env,           \* pipeline: what exists on disk and which libraries load
    annots,        \* pipeline: the widget annotations of the document's pages
    form,          \* pipeline: the AcroForm field dictionary values (/V)
    out            \* pipeline: [file, refreshed, stdout, error]

vars == <<nt_arg, nt_ret, draw_data, bf, pc, env, annots, form, out>>

----------------------------------------------------------------------------
(* Bounds of the model *)

MaxLen == 3          \* longest text handed to normalize_text on its own
MaxSubtasks == 25    \* longest subtask list drawn (the row capacity is 19)
MaxWidgets == 2      \* most button widgets on the template's pages

(* Program constants *)

MAX_ROWS == 19

SPACE == 32
NEWLINE == 10
HYPHEN == 45
NBSP == 160
NNBSP == 8239
THINSP == 8201
NBHYPHEN == 8209

----------------------------------------------------------------------------
(* Python values *)

None == [k |-> "none"]
Str(s) == [k |-> "str", s |-> s]
Num(n) == [k |-> "num", n |-> n]
Bool(b) == [k |-> "bool", b |-> b]
List(l) == [k |-> "list", l |-> l]
Dict(d) == [k |-> "dict", d |-> d]

EmptyDict == Dict(<<>>)
EmptyList == List(<<>>)
EmptyStr == Str(<<>>)

\* bool(v): the truth value Python gives v in "v or default" and "if v:"
Truthy(v) ==
    CASE v.k = "none" -> FALSE
      [] v.k = "str"  -> v.s # <<>>
      [] v.k = "num"  -> v.n # 0
      [] v.k = "bool" -> v.b
      [] v.k = "list" -> v.l # <<>>
      [] v.k = "dict" -> DOMAIN v.d # {}

\* v or default
Or(v, default) == IF Truthy(v) THEN v ELSE default

\* only a dict has the method get; on anything else v.get raises AttributeError
HasGet(v) == v.k = "dict"

\* d.get(key, default)
Get(v, key, default) == IF key \in DOMAIN v.d THEN v.d[key] ELSE default

\* iter(v) succeeds for a list and for a str; a number or a bool raises TypeError
Iterable(v) == v.k \in {"list", "str"}

\* the items a for loop or a join draws from v
Items(v) ==
    CASE v.k = "list" -> v.l
      [] v.k = "str"  -> [i \in 1..Len(v.s) |-> Str(<<v.s[i]>>)]

----------------------------------------------------------------------------
(* Texts *)

RECURSIVE Digits(_)
Digits(n) == IF n < 10 THEN <<48 + n>> ELSE Digits(n \div 10) \o <<48 + (n % 10)>>

\* str(v) for the scalars json.load produces
PyStr(v) ==
    CASE v.k = "str"  -> v.s
      [] v.k = "num"  -> IF v.n < 0 THEN <<HYPHEN>> \o Digits(0 - v.n) ELSE Digits(v.n)
      [] v.k = "bool" -> IF v.b THEN <<84, 114, 117, 101>>          \* "True"
                                ELSE <<70, 97, 108, 115, 101>>      \* "False"

\* str.upper() and str.lower() on the code points the model draws (ASCII letters
\* fold, everything else drawn has no case)
UpperChar(c) == IF c \in 97..122 THEN c - 32 ELSE c
LowerChar(c) == IF c \in 65..90 THEN c + 32 ELSE c
Upper(s) == [i \in 1..Len(s) |-> UpperChar(s[i])]
Lower(s) == [i \in 1..Len(s) |-> LowerChar(s[i])]

\* the code points str.isspace() accepts, which str.rstrip() removes
Whitespace ==
    (9..13) \cup (28..32) \cup {133, 160, 5760} \cup (8192..8202)
        \cup {8232, 8233, 8239, 8287, 12288}

RECURSIVE RStrip(_)
RStrip(s) ==
    IF s # <<>> /\ s[Len(s)] \in Whitespace THEN RStrip(SubSeq(s, 1, Len(s) - 1)) ELSE s

\* sep.join(parts)
RECURSIVE Join(_, _)
Join(sep, parts) ==
    IF parts = <<>> THEN <<>>
    ELSE IF Len(parts) = 1 THEN parts[1]
    ELSE parts[1] \o sep \o Join(sep, Tail(parts))

\* "".join(parts)
RECURSIVE Concat(_)
Concat(parts) == IF parts = <<>> THEN <<>> ELSE parts[1] \o Concat(Tail(parts))

----------------------------------------------------------------------------
(* normalize_text *)

bad_spaces == {NBSP, NNBSP, THINSP, NBHYPHEN}

\* variant: the blanks are removed instead of replaced
normalize_text_stripping(v) ==
    IF v.k = "none" THEN <<>>
    ELSE SelectSeq(PyStr(v), LAMBDA c : c \notin bad_spaces)

normalize_text(v) ==
    IF v.k = "none" THEN <<>>
    ELSE LET s == PyStr(v)
         IN  [i \in 1..Len(s) |-> IF s[i] \in bad_spaces THEN SPACE ELSE s[i]]

----------------------------------------------------------------------------
(* build_field_values *)

\* texts the code compares with or writes
t_EH == <<69, 72>>                                                  \* "EH"
t_E == <<69>>                                                       \* "E"
t_H == <<72>>                                                       \* "H"
t_M == <<77>>                                                       \* "M"
t_L == <<76>>                                                       \* "L"
t_0 == <<48>>                                                       \* "0"
t_1 == <<49>>                                                       \* "1"
t_2 == <<50>>                                                       \* "2"
t_3 == <<51>>                                                       \* "3"
t_4 == <<52>>                                                       \* "4"
t_approve == <<97, 112, 112, 114, 111, 118, 101>>                   \* "approve"
t_approved == <<97, 112, 112, 114, 111, 118, 101, 100>>             \* "approved"
t_app == <<97, 112, 112>>                                           \* "app"
t_disapprove == <<100, 105, 115, 97, 112, 112, 114, 111, 118, 101>> \* "disapprove"
t_disapproved == <<100, 105, 115, 97, 112, 112, 114, 111, 118, 101, 100>>
t_dis == <<100, 105, 115>>                                          \* "dis"

\* f"{prefix}{idx}"
Key(prefix, idx) == prefix \o ToString(idx)

\* fields[key] = val
Assign(fields, key, val) == (key :> val) @@ fields

\* risk_map.get(code, default)
risk_map_get(code, default) ==
    CASE code = t_EH -> t_1
      [] code = t_E  -> t_1
      [] code = t_H  -> t_2
      [] code = t_M  -> t_3
      [] code = t_L  -> t_4
      [] OTHER       -> default

\* overall_map.get(code, default)
overall_map_get(code, default) ==
    CASE code = t_EH -> t_EH
      [] code = t_E  -> t_EH
      [] code = t_H  -> t_H
      [] code = t_M  -> t_M
      [] code = t_L  -> t_L
      [] OTHER       -> default

\* prepared = draw_data.get("prepared_by", {}) or {}
prepared_by(d) == Or(Get(d, "prepared_by", EmptyDict), EmptyDict)

\* subtasks = draw_data.get("subtasks", []) or []
subtasks_of(d) == Or(Get(d, "subtasks", EmptyList), EmptyList)

\* the header block: prepared.get raises when prepared is a non-empty non-dict
HeaderRaises(d) == ~HasGet(prepared_by(d))

HeaderFields(d) ==
    LET p == prepared_by(d)
    IN  [mission      |-> normalize_text(Get(d, "mission_task_and_description", EmptyStr)),
         date         |-> normalize_text(Get(d, "date", EmptyStr)),
         prep_name    |-> normalize_text(Get(p, "name_last_first_middle_initial", EmptyStr)),
         prep_rank    |-> normalize_text(Get(p, "rank_grade", EmptyStr)),
         prep_title   |-> normalize_text(Get(p, "duty_title_position", EmptyStr)),
         prep_unit    |-> normalize_text(Get(p, "unit", EmptyStr)),
         prep_email   |-> normalize_text(Get(p, "work_email", EmptyStr)),
         prep_phone   |-> normalize_text(Get(p, "telephone", EmptyStr)),
         prep_uic     |-> normalize_text(Get(p, "uic_cin", EmptyStr)),
         prep_plan    |-> normalize_text(Get(p, "training_support_or_lesson_plan_or_opord", EmptyStr)),
         overall_plan |-> normalize_text(Get(d, "overall_supervision_plan", EmptyStr))]

\* sub_name: subobj.get("name", "") when item["subtask"] is a dict, else ""
sub_name(item) ==
    LET subobj == Get(item, "subtask", None)
    IN  IF subobj.k = "dict" THEN Get(subobj, "name", EmptyStr) ELSE EmptyStr

\* vals = x.get("values", []) or []
values_of(x) == Or(Get(x, "values", EmptyList), EmptyList)

\* how_to = item.get("how_to_implement", {}) or {}
how_to_of(item) == Or(Get(item, "how_to_implement", EmptyDict), EmptyDict)

\* how_vals / who_vals: the values of how_to[part] when that is a dict, else []
part_vals(how_to, part) ==
    LET hv == Get(how_to, part, None)
    IN  IF hv.k = "dict" THEN values_of(hv) ELSE EmptyList

\* [normalize_text(v) for v in vals]
Normalized(vals) ==
    LET items == Items(vals) IN [i \in 1..Len(items) |-> normalize_text(items[i])]

\* "".join(f"- {normalize_text(v)}\n" for v in vals).rstrip()
control_text(vals) ==
    LET parts == Normalized(vals)
    IN  RStrip(Concat([i \in 1..Len(parts) |-> <<HYPHEN, SPACE>> \o parts[i] \o <<NEWLINE>>]))

\* "\n".join(normalize_text(v) for v in vals)
block_text(vals) == Join(<<NEWLINE>>, Normalized(vals))

\* if vals: fields[key] = "\n".join(...)
\* variant: the key is assigned even when vals is empty
AssignBlockAlways(fields, key, vals) == Assign(fields, key, block_text(vals))

AssignBlock(fields, key, vals) ==
    IF Truthy(vals) THEN Assign(fields, key, block_text(vals)) ELSE fields

\* normalize_text(item.get(key, "")).upper()
\* variant: without .upper()
level_of_as_written(item, key) == normalize_text(Get(item, key, EmptyStr))

level_of(item, key) == Upper(normalize_text(Get(item, key, EmptyStr)))

\* one pass of the loop body raises: item.get on a non-dict, how_to.get on a
\* non-dict, or iterating a number or a bool
RowRaises(item) ==
    \/ ~HasGet(item)
    \/ LET ctrl == Get(item, "control", None)
       IN  ctrl.k = "dict" /\ ~Iterable(values_of(ctrl))
    \/ ~HasGet(how_to_of(item))
    \/ LET how_vals == part_vals(how_to_of(item), "how")
       IN  Truthy(how_vals) /\ ~Iterable(how_vals)
    \/ LET who_vals == part_vals(how_to_of(item), "who")
       IN  Truthy(who_vals) /\ ~Iterable(who_vals)

\* one pass of the loop body that does not raise
RowFields(fields, idx, item) ==
    LET ctrl == Get(item, "control", None)
        how_vals == part_vals(how_to_of(item), "how")
        who_vals == part_vals(how_to_of(item), "who")
        init_level == level_of(item, "initial_risk_level")
        res_level == level_of(item, "residual_risk_level")
        f1 == Assign(fields, Key("sub_", idx), normalize_text(sub_name(item)))
        f2 == Assign(f1, Key("haz_", idx), normalize_text(Get(item, "hazard", EmptyStr)))
        f3 == IF ctrl.k = "dict"
              THEN Assign(f2, Key("control_", idx), control_text(values_of(ctrl)))
              ELSE f2
        f4 == AssignBlock(f3, Key("how_", idx), how_vals)
        f5 == AssignBlock(f4, Key("who_", idx), who_vals)
        f6 == IF init_level # <<>>
              THEN Assign(f5, Key("init_risk", idx), risk_map_get(init_level, t_0))
              ELSE f5
    IN  IF res_level # <<>>
        THEN Assign(f6, Key("res_risk", idx), risk_map_get(res_level, t_0))
        ELSE f6

\* if idx > MAX_ROWS: break
\* variant: the comparison is >=
RowLimitOffByOne(idx) == idx >= MAX_ROWS

RowLimit(idx) == idx > MAX_ROWS

\* Block 10: overall_res
\* variant: no default when the level is empty or unrecognized
overall_res_unset(d) ==
    LET overall_json == Upper(normalize_text(Get(d, "overall_residual_risk_level", EmptyStr)))
    IN  overall_map_get(overall_json, <<>>)

overall_res(d) ==
    LET overall_json == Upper(normalize_text(Get(d, "overall_residual_risk_level", EmptyStr)))
    IN  IF overall_json # <<>> THEN overall_map_get(overall_json, t_L) ELSE t_L

\* Block 12: xapp
\* variant: without .lower()
xapp_case_sensitive(d) ==
    LET approve_json == normalize_text(Get(d, "approval_decision", EmptyStr))
    IN  IF approve_json \in {t_approve, t_app, t_approved} THEN t_app ELSE t_dis

xapp(d) ==
    LET approve_json == Lower(normalize_text(Get(d, "approval_decision", EmptyStr)))
    IN  IF approve_json \in {t_approve, t_app, t_approved} THEN t_app
        ELSE IF approve_json \in {t_disapprove, t_dis, t_disapproved} THEN t_dis
        ELSE t_dis

\* the two radio groups, assigned after the loop
RadioFields(fields, d) ==
    Assign(Assign(fields, "overall_res", overall_res(d)), "xapp", xapp(d))

----------------------------------------------------------------------------
(* Input records: what json.load can hand to build_field_values.  Every     *)
(* optional field is drawn absent, null, of the expected type and of an     *)
(* unexpected scalar type; row k of a record is built from the k-th entries *)
(* of the option lists below, rotated by an offset chosen with the record.  *)

Absent == [k |-> "absent"]

\* {key: opt}, or {} when the field is absent
Field(key, opt) == IF opt = Absent THEN <<>> ELSE key :> opt

Pick(opts, i) == opts[(i % Len(opts)) + 1]

t_WearPPE == <<87, 101, 97, 114, 32, 80, 80, 69>>                   \* "Wear PPE"
t_CheckEquipment == <<67, 104, 101, 99, 107, 32, 101, 113, 117, 105, 112, 109, 101, 110, 116>>
t_Brief == <<66, 114, 105, 101, 102>>                               \* "Brief"
t_NCO == <<78, 67, 79>>                                             \* "NCO"
t_Smith == <<83, 109, 105, 116, 104>>                               \* "Smith"
t_None == <<78, 111, 110, 101>>                                     \* "None"
t_Approved == <<65, 112, 112, 114, 111, 118, 101, 100>>             \* "Approved"
t_APPROVE == <<65, 80, 80, 82, 79, 86, 69>>                         \* "APPROVE"
t_Dis == <<68, 105, 115>>                                           \* "Dis"
t_DISAPPROVED == <<68, 73, 83, 65, 80, 80, 82, 79, 86, 69, 68>>     \* "DISAPPROVED"
t_maybe == <<109, 97, 121, 98, 101>>                                \* "maybe"

RiskOpts ==
    << Absent, Str(t_EH), None, Str(<<101, 104>>), EmptyStr, Str(<<69, 104>>),
       Str(<<101, 72>>), Str(t_E), Str(<<101>>), Str(t_H), Str(<<104>>), Str(t_M),
       Str(<<109>>), Str(t_L), Str(<<108>>), Str(<<88>>), Str(<<SPACE, 104>>),
       Str(<<NBSP>>), Num(0), Num(2), Str(<<72, 69>>), Bool(FALSE) >>

ApprovalOpts ==
    << Absent, Str(t_Approved), None, Str(t_disapprove), EmptyStr, Str(t_approve),
       Str(t_APPROVE), Str(t_app), Str(t_approved), Str(t_Dis), Str(t_DISAPPROVED),
       Str(t_dis), Str(t_disapproved), Str(t_maybe), Str(t_app \o <<SPACE>>),
       Num(1), Bool(TRUE) >>

TextOpts ==
    << Str(t_Brief), Absent, None, EmptyStr, Str(<<65, NBSP, 66>>), Num(20240131),
       Str(<<NNBSP, 65, THINSP, NBHYPHEN, 8288>>), Bool(TRUE), Str(t_None),
       Str(<<47, 76>>) >>

PreparedOpts ==
    << Dict(Field("name_last_first_middle_initial", Str(t_Smith))
            @@ Field("rank_grade", Str(<<69, 53>>))
            @@ Field("duty_title_position", Str(t_NCO))
            @@ Field("unit", Str(<<65, NBSP, 67, 111>>))
            @@ Field("work_email", None)
            @@ Field("telephone", Num(5551234))
            @@ Field("uic_cin", EmptyStr)
            @@ Field("training_support_or_lesson_plan_or_opord", Str(t_Brief))),
       Absent, None, EmptyDict,
       Dict(Field("name_last_first_middle_initial", None) @@ Field("unit", Num(7))),
       Num(0), EmptyStr, EmptyList, Bool(FALSE) >>

\* prepared_by holding a non-empty scalar or list
BadPreparedOpts == << Str(t_Smith), Num(5), Bool(TRUE), List(<<Str(t_Smith)>>) >>

SubNameOpts(k) ==
    << Dict(Field("name", Str(<<84>> \o Digits(k)))), Absent, None,
       Dict(Field("name", Str(<<84, NBSP>> \o Digits(k)))), Str(t_Brief), EmptyDict,
       Dict(Field("name", None)), Dict(Field("name", Num(k))), Num(k) >>

HazardOpts(k) ==
    << Str(<<90>> \o Digits(k)), Absent, Str(<<90, THINSP>> \o Digits(k)), None,
       Num(k), EmptyStr >>

ValuesOpts ==
    << List(<<Str(t_WearPPE), Str(t_CheckEquipment)>>), Absent, None, EmptyList,
       List(<<Str(t_Brief)>>), List(<<Str(t_Brief), EmptyStr>>),
       List(<<Str(t_Brief \o <<SPACE>>)>>), List(<<EmptyStr>>),
       List(<<Str(t_Brief), Str(t_NCO \o <<NBSP>>)>>), List(<<None, Str(t_NCO)>>),
       List(<<Num(5)>>), Str(<<97, 98>>), List(<<Str(<<SPACE, 120>>), Str(<<121, NEWLINE>>)>>),
       Num(0), List(<<None>>), List(<<Str(t_NCO), Str(t_Brief), Str(<<65, NBSP, 66>>)>>) >>

\* a dict carrying "values", or something else in its place
HolderOpts(i) ==
    LET holder == Dict(Field("values", Pick(ValuesOpts, i)))
    IN  Pick(<< holder, holder, holder, holder, Absent, holder, None, holder,
                Str(t_Brief), holder, Num(7) >>, i)

HowToOpts(i) ==
    Pick(<< Dict(Field("how", HolderOpts(i)) @@ Field("who", HolderOpts(i + 5))),
            Dict(Field("how", Dict(Field("values", EmptyList)))
                 @@ Field("who", Dict(Field("values", List(<<Str(t_NCO), Str(<<65, NBSP, 66>>)>>))))),
            Dict(Field("how", HolderOpts(i + 2)) @@ Field("who", HolderOpts(i))),
            Dict(Field("how", HolderOpts(i)) @@ Field("who", HolderOpts(i + 1))),
            Absent,
            Dict(Field("how", HolderOpts(i + 7)) @@ Field("who", HolderOpts(i + 3))),
            None, EmptyDict, Num(0), EmptyStr >>, i)

Subtask(k, o) ==
    Dict(Field("subtask", Pick(SubNameOpts(k), k + o))
         @@ Field("hazard", Pick(HazardOpts(k), k + o))
         @@ Field("control", HolderOpts(k + 3 * o))
         @@ Field("how_to_implement", HowToOpts(k + 5 * o))
         @@ Field("initial_risk_level", Pick(RiskOpts, k + o - 1))
         @@ Field("residual_risk_level", Pick(RiskOpts, 3 * k + o)))

\* subtask records with one field holding a scalar the code cannot traverse
BadSubtasks ==
    << Dict(Field("how_to_implement", Str(t_Brief))),
       Dict(Field("how_to_implement", Num(1))),
       Dict(Field("control", Dict(Field("values", Num(5))))),
       Dict(Field("control", Dict(Field("values", Bool(TRUE))))),
       Dict(Field("how_to_implement", Dict(Field("how", Dict(Field("values", Num(3))))))),
       Dict(Field("how_to_implement", Dict(Field("who", Dict(Field("values", Bool(TRUE))))))) >>

TopFields(o, prepared) ==
    Field("mission_task_and_description", Pick(TextOpts, o))
    @@ Field("date", Pick(TextOpts, o + 5))
    @@ Field("prepared_by", prepared)
    @@ Field("overall_supervision_plan", Pick(TextOpts, 2 * o + 1))
    @@ Field("overall_residual_risk_level", Pick(RiskOpts, o))
    @@ Field("approval_decision", Pick(ApprovalOpts, o))

\* a record of n subtasks, the one at badAt (if any) taken from BadSubtasks
Record(n, o, badAt, b) ==
    Dict(TopFields(o, Pick(PreparedOpts, o))
         @@ Field("subtasks",
                  List([k \in 1..n |-> IF k = badAt THEN BadSubtasks[b] ELSE Subtask(k, o)])))

NumOffsets == Len(RiskOpts)

WellTypedRecords ==
    { Record(n, o, 0, 1) : n \in 0..MaxSubtasks, o \in 0..(NumOffsets - 1) }
    \cup { Dict(TopFields(o, Pick(PreparedOpts, o)) @@ Field("subtasks", s)) :
             o \in 0..(NumOffsets - 1), s \in {Absent, None, Num(0), EmptyStr} }

ScalarRecords ==
    { Record(n, o, badAt, b) :
        n \in {1, MAX_ROWS, MaxSubtasks}, o \in 0..2,
        badAt \in {1, MAX_ROWS, MAX_ROWS + 1}, b \in 1..Len(BadSubtasks) }
    \cup { Dict(TopFields(o, BadPreparedOpts[j]) @@ Field("subtasks", List(<<Subtask(1, o)>>))) :
             o \in 0..2, j \in 1..Len(BadPreparedOpts) }
    \cup { Dict(TopFields(o, Absent) @@ Field("subtasks", s)) :
             o \in 0..2, s \in {Num(5), Bool(TRUE)} }

DrawRecords == WellTypedRecords \cup ScalarRecords

----------------------------------------------------------------------------
(* The three programs: each variable group is idle outside its program *)

IdleNormalizer == nt_arg = None /\ nt_ret = [done |-> FALSE, s |-> <<>>]
IdleMapper == draw_data = EmptyDict /\ bf = [state |-> "idle", idx |-> 0, fields |-> <<>>]
IdlePipeline ==
    /\ pc = "idle"
    /\ env = <<>>
    /\ annots = <<>>
    /\ form = <<>>
    /\ out = <<>>

----------------------------------------------------------------------------
(* build_field_values, statement by statement.  bf.state is "called" on     *)
(* entry, "loop" while the for loop runs (idx is the next index enumerate   *)
(* yields), "returned" when the mapping bf.fields is returned and "raised"  *)
(* when an exception left the function (no mapping exists then).            *)

Raised == [state |-> "raised", idx |-> 0, fields |-> <<>>]

\* lines 66-86: the header block and the lookup of the subtask list
BuildHeader ==
    /\ bf.state = "called"
    /\ bf' = IF HeaderRaises(draw_data) \/ ~Iterable(subtasks_of(draw_data))
             THEN Raised
             ELSE [state |-> "loop", idx |-> 1, fields |-> HeaderFields(draw_data)]
    /\ UNCHANGED <<nt_arg, nt_ret, draw_data, pc, env, annots, form, out>>

\* lines 92-139: one pass of the loop
BuildRow ==
    /\ bf.state = "loop"
    /\ bf.idx <= Len(Items(subtasks_of(draw_data)))
    /\ ~RowLimit(bf.idx)
    /\ LET item == Items(subtasks_of(draw_data))[bf.idx]
       IN  bf' = IF RowRaises(item)
                 THEN Raised
                 ELSE [state |-> "loop", idx |-> bf.idx + 1,
                       fields |-> RowFields(bf.fields, bf.idx, item)]
    /\ UNCHANGED <<nt_arg, nt_ret, draw_data, pc, env, annots, form, out>>

\* lines 93-94 and 141-165: the loop ends (exhausted or break), the radio groups
\* are assigned and the mapping is returned
BuildRadio ==
    /\ bf.state = "loop"
    /\ bf.idx > Len(Items(subtasks_of(draw_data))) \/ RowLimit(bf.idx)
    /\ bf' = [state |-> "returned", idx |-> bf.idx,
              fields |-> RadioFields(bf.fields, draw_data)]
    /\ UNCHANGED <<nt_arg, nt_ret, draw_data, pc, env, annots, form, out>>

(* build_field_values called on a record *)

InitMapper ==
    /\ draw_data \in DrawRecords
    /\ bf = [state |-> "called", idx |-> 0, fields |-> <<>>]
    /\ IdleNormalizer
    /\ IdlePipeline

NextMapper == BuildHeader \/ BuildRow \/ BuildRadio

SpecMapper == InitMapper /\ [][NextMapper]_vars

----------------------------------------------------------------------------
(* fill_pdf.  The template is part of the environment: its AcroForm fields  *)
(* (reader.get_fields(): name -> /FT, /V) and the widget annotations of its *)
(* pages, in page order.  A widget is [T, AP, N, AS, V]: its /T, whether it *)
(* has /AP and /AP/N ("none", "noN", "N"), the names /AP/N defines, its     *)
(* /AS and its /V.                                                          *)

t_Off == <<47, 79, 102, 102>>                                       \* "/Off"
t_slash == <<47>>                                                   \* "/"

\* export = val if val.startswith("/") else f"/{val}"
Export(val) == IF val # <<>> /\ val[1] = 47 THEN val ELSE t_slash \o val

\* find_widgets(field_name): the positions of the annotations whose /T is the name
find_widgets(pages, name) == { i \in DOMAIN pages : pages[i].T = name }

\* lines 249-259 on one widget
\* variant: without the else branch
SetAppearanceKeepUnmatched(w, export) ==
    IF w.AP # "N" THEN w
    ELSE IF export \in w.N THEN [w EXCEPT !.AS = export] ELSE w

SetAppearance(w, export) ==
    IF w.AP # "N" THEN w
    ELSE [w EXCEPT !.AS = IF export \in w.N THEN export ELSE t_Off]

\* what the loop over the fields and update_page_form_field_values do to one widget
FillWidget(w, fields, field_values) ==
    IF w.T \in DOMAIN fields /\ w.T \in DOMAIN field_values
    THEN CASE fields[w.T].FT \in {"/Tx", "/Ch"} -> [w EXCEPT !.V = field_values[w.T]]
           [] fields[w.T].FT = "/Btn"           -> SetAppearance(w, Export(field_values[w.T]))
           [] OTHER                             -> w
    ELSE w

\* lines 242-247: the parent's /V, set when the field has widgets and field.get("obj")
\* yields an object (any failure there is swallowed)
FillField(name, fields, pages, field_values, parentObj) ==
    IF /\ name \in DOMAIN field_values
       /\ fields[name].FT = "/Btn"
       /\ find_widgets(pages, name) # {}
       /\ parentObj
    THEN [fields[name] EXCEPT !.V = Export(field_values[name])]
    ELSE fields[name]

\* fields = reader.get_fields() is None without /AcroForm, and fields.items() raises
\* variant: get_fields() gives an empty dict
FillPdfToleratesNoForm(e) == FALSE

FillPdfRaises(e) == ~e.acroForm

----------------------------------------------------------------------------
(* The run: main -> generate_draw_pdf -> build_field_values -> fill_pdf ->  *)
(* refresh_form_appearances -> print.  pc is the statement the run is at.   *)

Fail(name) == [out EXCEPT !.error = name]

\* lines 354-361: main up to the call of generate_draw_pdf
Main ==
    /\ pc = "main"
    /\ IF ~env.inputExists
       THEN /\ pc' = "failed"
            /\ out' = Fail("SystemExit")
            /\ UNCHANGED draw_data
       ELSE /\ pc' = "generate"
            /\ draw_data' = env.input
            /\ UNCHANGED out
    /\ UNCHANGED <<nt_arg, nt_ret, bf, env, annots, form>>

\* lines 336-342: the template check and the call of build_field_values
GenerateDrawPdf ==
    /\ pc = "generate"
    /\ IF ~env.templateExists
       THEN /\ pc' = "failed"
            /\ out' = Fail("FileNotFoundError")
            /\ UNCHANGED bf
       ELSE /\ pc' = "build"
            /\ bf' = [state |-> "called", idx |-> 0, fields |-> <<>>]
            /\ UNCHANGED out
    /\ UNCHANGED <<nt_arg, nt_ret, draw_data, env, annots, form>>

\* an exception of build_field_values leaves generate_draw_pdf and main
BuildRaised ==
    /\ pc = "build"
    /\ bf.state = "raised"
    /\ pc' = "failed"
    /\ out' = Fail("AttributeError or TypeError")
    /\ UNCHANGED <<nt_arg, nt_ret, draw_data, bf, env, annots, form>>

\* lines 343-349 and 172-267: fill_pdf, whole
FillPdf ==
    /\ pc = "build"
    /\ bf.state = "returned"
    /\ IF env.depError
       THEN /\ pc' = "failed"
            /\ out' = Fail("RuntimeError")
            /\ UNCHANGED <<annots, form>>
       ELSE IF FillPdfRaises(env)
       THEN /\ pc' = "failed"
            /\ out' = Fail("AttributeError")
            /\ UNCHANGED <<annots, form>>
       ELSE LET fields == env.template.fields
                pages == env.template.annots
            IN  /\ annots' = [i \in DOMAIN pages |-> FillWidget(pages[i], fields, bf.fields)]
                /\ form' = [name \in DOMAIN fields |->
                               FillField(name, fields, pages, bf.fields, env.parentObj)]
                /\ out' = [out EXCEPT !.opened = TRUE, !.file = "written"]
                /\ pc' = "refresh"
    /\ UNCHANGED <<nt_arg, nt_ret, draw_data, bf, env>>

\* the value fitz reports for a widget
field_value(w) == IF w.AP = "none" THEN w.V ELSE w.AS

\* lines 274-297: refresh_form_appearances
RefreshFormAppearances ==
    /\ pc = "refresh"
    /\ out' = [out EXCEPT !.refreshed =
                  env.fitz /\ \E i \in DOMAIN annots : field_value(annots[i]) # <<>>]
    /\ pc' = "print"
    /\ UNCHANGED <<nt_arg, nt_ret, draw_data, bf, env, annots, form>>

\* lines 351 and 362: the path is returned and main prints the success line
PrintCreated ==
    /\ pc = "print"
    /\ out' = [out EXCEPT !.stdout = Append(@, "Created")]
    /\ pc' = "done"
    /\ UNCHANGED <<nt_arg, nt_ret, draw_data, bf, env, annots, form>>

(* Templates *)

TextWidget(name, v) == [T |-> name, AP |-> "none", N |-> {}, AS |-> <<>>, V |-> v]

ButtonWidget(name, ap, n, as) == [T |-> name, AP |-> ap, N |-> n, AS |-> as, V |-> <<>>]

n_EH == {t_slash \o t_EH, t_Off}
n_L == {t_slash \o t_L, t_Off}
n_dis == {t_slash \o t_dis, t_Off}
n_app == {t_slash \o t_app, t_Off}

\* a form with names the mapper writes (rows 1 and 2 of the table; the date as a
\* check box), a signature field and a button the mapper never assigns
TemplateFields ==
    [name \in {"mission", "prep_name", "sub_1", "control_1", "how_1", "who_1", "how_2", "who_2"}
        |-> [FT |-> "/Tx", V |-> IF name \in {"how_1", "who_1", "how_2", "who_2"} THEN t_Brief ELSE <<>>]]
    @@ [name \in {"init_risk1", "res_risk1"} |-> [FT |-> "/Ch", V |-> t_0]]
    @@ [name \in {"overall_res", "xapp", "lock", "date"} |-> [FT |-> "/Btn", V |-> t_Off]]
    @@ [name \in {"sig"} |-> [FT |-> "/Sig", V |-> <<>>]]

TextWidgets ==
    << TextWidget("mission", <<>>), TextWidget("prep_name", <<>>), TextWidget("sub_1", <<>>),
       TextWidget("control_1", <<>>), TextWidget("how_1", t_Brief), TextWidget("who_1", t_Brief),
       TextWidget("how_2", t_Brief), TextWidget("who_2", t_Brief),
       TextWidget("init_risk1", t_0), TextWidget("res_risk1", t_0), TextWidget("sig", <<>>) >>

ApprovalWidgets ==
    << ButtonWidget("xapp", "N", n_app, t_Off),
       ButtonWidget("xapp", "N", n_dis, t_slash \o t_dis),
       ButtonWidget("lock", "N", n_L, t_slash \o t_L),
       ButtonWidget("date", "N", n_L, t_Off) >>

\* the widgets a template can carry for the overall-risk group, and kids with no /T
OverallWidgets ==
    { ButtonWidget("overall_res", ap[1], ap[2], as) :
        ap \in {<<"none", {}>>, <<"noN", {}>>, <<"N", n_EH>>, <<"N", n_L>>},
        as \in {t_Off, t_slash \o t_EH} }
    \cup { ButtonWidget("", "N", n_EH, as) : as \in {t_Off, t_slash \o t_EH} }

StandardOverall ==
    << ButtonWidget("overall_res", "N", n_EH, t_Off),
       ButtonWidget("overall_res", "N", n_L, t_slash \o t_L) >>

Template(overall) ==
    [fields |-> TemplateFields, annots |-> TextWidgets \o ApprovalWidgets \o overall]

NoTemplate == [fields |-> <<>>, annots |-> <<>>]

Env(inputExists, templateExists, acroForm, fitz, depError, parentObj, input, overall) ==
    [inputExists |-> inputExists, templateExists |-> templateExists,
     acroForm |-> templateExists /\ acroForm, fitz |-> fitz, depError |-> depError,
     parentObj |-> parentObj,
     input |-> IF inputExists THEN input ELSE None,
     template |-> IF templateExists /\ acroForm THEN Template(overall) ELSE NoTemplate]

\* records for the runs that vary the environment
FewRecords ==
    { Dict(Field("overall_residual_risk_level", lvl)
           @@ Field("subtasks", List(<<Subtask(1, 0)>>))) :
        lvl \in {Absent, Str(t_EH), Str(t_M)} }

Init ==
    /\ IdleNormalizer
    /\ IdleMapper
    /\ pc = "main"
    /\ annots = <<>>
    /\ form = <<>>
    /\ out \in [file : {"absent", "stale"}, opened : {FALSE}, refreshed : {FALSE},
                stdout : {<<>>}, error : {"none"}]
    /\ \/ \E input \in DrawRecords :
             /\ env = Env(TRUE, TRUE, TRUE, TRUE, FALSE, TRUE, input, StandardOverall)
             /\ out.file = "absent"
       \/ \E ie, te, af, fz, de \in BOOLEAN, input \in FewRecords :
             env = Env(ie, te, af, fz, de, FALSE, input, StandardOverall)
       \/ \E po \in BOOLEAN, input \in FewRecords, n \in 0..MaxWidgets :
             \E ws \in [1..n -> OverallWidgets] :
                 /\ env = Env(TRUE, TRUE, TRUE, FALSE, FALSE, po, input, ws)
                 /\ out.file = "absent"

Next ==
    \/ Main
    \/ GenerateDrawPdf
    \/ BuildHeader
    \/ BuildRow
    \/ BuildRadio
    \/ BuildRaised
    \/ FillPdf
    \/ RefreshFormAppearances
    \/ PrintCreated

Spec == Init /\ [][Next]_vars

----------------------------------------------------------------------------
(* normalize_text called on one value *)

\* "A", "a", the blanks the code knows and U+2060 WORD JOINER, which it does not
Alphabet == {65, 97, SPACE, NEWLINE, NBSP, NNBSP, THINSP, NBHYPHEN, 8288}

Texts == UNION { [1..n -> Alphabet] : n \in 0..MaxLen }

NormalizerArgs ==
    {None} \cup { Str(t) : t \in Texts \cup {t_None} }
           \cup { Num(n) : n \in {0, 7, 120, 0 - 45} } \cup { Bool(b) : b \in BOOLEAN }

InitNorm ==
    /\ nt_arg \in NormalizerArgs
    /\ nt_ret = [done |-> FALSE, s |-> <<>>]
    /\ IdleMapper
    /\ IdlePipeline

NormalizeText ==
    /\ ~nt_ret.done
    /\ nt_ret' = [done |-> TRUE, s |-> normalize_text(nt_arg)]
    /\ UNCHANGED <<nt_arg, draw_data, bf, pc, env, annots, form, out>>

NextNorm == NormalizeText

SpecNorm == InitNorm /\ [][NextNorm]_vars

----------------------------------------------------------------------------
(* Properties of normalize_text *)

\* C6: normalize_text returns "" for None and otherwise the text of its argument,
\* of the same length, with each no-break space, narrow no-break space, thin space
\* and non-breaking hyphen replaced by one ordinary space and every other code
\* point kept at its position; None never comes back as the word "None".
C6_NormalizeTextReplacesBadSpaces ==
    nt_ret.done =>
        IF nt_arg = None
        THEN nt_ret.s = <<>> /\ nt_ret.s # t_None
        ELSE LET t == PyStr(nt_arg)
             IN  /\ Len(nt_ret.s) = Len(t)
                 /\ \A i \in 1..Len(t) :
                       nt_ret.s[i] = IF t[i] \in {160, 8239, 8201, 8209} THEN 32 ELSE t[i]

C6_Witness ==
    /\ nt_ret.done
    /\ nt_arg = Str(<<65, NBSP, 97>>)
    /\ nt_ret.s = <<65, SPACE, 97>>

----------------------------------------------------------------------------
(* Properties of build_field_values *)

Min(a, b) == IF a < b THEN a ELSE b

\* the subtask list of the input record (empty when absent or null)
InputSubtasks ==
    IF draw_data.k = "dict" /\ "subtasks" \in DOMAIN draw_data.d
       /\ draw_data.d["subtasks"].k = "list"
    THEN draw_data.d["subtasks"].l
    ELSE <<>>

\* rows whose loop pass has completed in the current state
RowsDone ==
    CASE bf.state = "loop"     -> bf.idx - 1
      [] bf.state = "returned" -> Min(Len(InputSubtasks), MAX_ROWS)
      [] OTHER                 -> 0

HeaderKeys ==
    {"mission", "date", "prep_name", "prep_rank", "prep_title", "prep_unit",
     "prep_email", "prep_phone", "prep_uic", "prep_plan", "overall_plan"}

RowPrefixes == {"sub_", "haz_", "control_", "how_", "who_", "init_risk", "res_risk"}

RowKeys(rows) == { Key(p, k) : p \in RowPrefixes, k \in rows }

\* the value at a path of keys through nested dicts, Absent when the path breaks
RECURSIVE At(_, _)
At(v, path) ==
    IF path = <<>> THEN v
    ELSE IF v.k = "dict" /\ path[1] \in DOMAIN v.d THEN At(v.d[path[1]], Tail(path))
    ELSE Absent

\* the text of an optional scalar: "" when absent or null
TextOf(v) == IF v \in {Absent, None} THEN <<>> ELSE PyStr(v)

\* C1: build_field_values never raises, whatever optional field is absent, null
\* or of an unexpected scalar type.
C1_NeverRaises == bf.state # "raised"

\* C2: n subtasks give exactly rows 1..min(n, 19): sub_k and haz_k hold the
\* normalized name and hazard of the k-th input subtask, no row-indexed key exists
\* outside 1..min(n, 19), and no error ever comes from a subtask past the 19th.
C2_RowsAreFirstNineteen ==
    LET items == InputSubtasks
        m == Min(Len(items), MAX_ROWS)
    IN  /\ bf.state = "returned" =>
              /\ \A k \in 1..m :
                    /\ Key("sub_", k) \in DOMAIN bf.fields
                    /\ Key("haz_", k) \in DOMAIN bf.fields
                    /\ bf.fields[Key("sub_", k)]
                          = normalize_text(LET nm == At(items[k], <<"subtask", "name">>)
                                           IN  IF nm = Absent THEN EmptyStr ELSE nm)
                    /\ bf.fields[Key("haz_", k)]
                          = normalize_text(LET hz == At(items[k], <<"hazard">>)
                                           IN  IF hz = Absent THEN EmptyStr ELSE hz)
              /\ DOMAIN bf.fields \subseteq HeaderKeys \cup {"overall_res", "xapp"} \cup RowKeys(1..m)
        /\ bf.state = "raised" =>
              \/ HeaderRaises(draw_data)
              \/ ~Iterable(subtasks_of(draw_data))
              \/ \E k \in 1..m : RowRaises(items[k])

C2_Witness ==
    /\ bf.state = "returned"
    /\ Len(InputSubtasks) = 25
    /\ RowRaises(InputSubtasks[20])
    /\ bf.fields["sub_19"] = <<84, SPACE, 49, 57>>
    /\ "sub_20" \notin DOMAIN bf.fields

\* the per-row risk code the claim expects for the text t of a risk level
ExpectedRowRisk(t) ==
    CASE t \in {<<69, 72>>, <<101, 104>>, <<69, 104>>, <<101, 72>>, <<69>>, <<101>>} -> t_1
      [] t \in {<<72>>, <<104>>} -> t_2
      [] t \in {<<77>>, <<109>>} -> t_3
      [] t \in {<<76>>, <<108>>} -> t_4
      [] OTHER -> t_0

\* C3: in every completed row, init_riskN and res_riskN are unassigned when the
\* level is missing or empty, and otherwise "1" for EH/E, "2" for H, "3" for M,
\* "4" for L in any letter case and "0" for any other code.
C3_RowRiskTranslation ==
    \A k \in 1..RowsDone :
        \A fam \in {<<"init_risk", "initial_risk_level">>, <<"res_risk", "residual_risk_level">>} :
            LET t == TextOf(At(InputSubtasks[k], <<fam[2]>>))
                key == Key(fam[1], k)
            IN  IF t = <<>> THEN key \notin DOMAIN bf.fields
                ELSE key \in DOMAIN bf.fields /\ bf.fields[key] = ExpectedRowRisk(t)

C3_Witness ==
    /\ bf.state = "returned"
    /\ \E k \in 1..RowsDone :
          /\ At(InputSubtasks[k], <<"initial_risk_level">>) = Str(<<101, 104>>)
          /\ bf.fields[Key("init_risk", k)] = t_1
    /\ \E k \in 1..RowsDone :
          /\ At(InputSubtasks[k], <<"residual_risk_level">>) = Str(<<88>>)
          /\ bf.fields[Key("res_risk", k)] = t_0
    /\ \E k \in 1..RowsDone :
          /\ At(InputSubtasks[k], <<"residual_risk_level">>) = Str(<<101>>)
          /\ bf.fields[Key("res_risk", k)] = t_1

\* C4: every returned mapping has xapp, which is "app" when approval_decision is
\* approve, approved or app in any letter case and "dis" otherwise (disapprove,
\* disapproved, dis, absent, null, empty or unrecognized).
C4_ApprovalResolves ==
    bf.state = "returned" =>
        /\ "xapp" \in DOMAIN bf.fields
        /\ LET t == Lower(TextOf(At(draw_data, <<"approval_decision">>)))
           IN  bf.fields["xapp"] =
                   IF t \in {t_approve, t_approved, t_app} THEN t_app ELSE t_dis

C4_Witness ==
    /\ bf.state = "returned"
    /\ At(draw_data, <<"approval_decision">>) = Str(t_Approved)
    /\ bf.fields["xapp"] = t_app

\* the overall code the claim expects for the text t of the overall level
ExpectedOverall(t) ==
    CASE t \in {<<69, 72>>, <<101, 104>>, <<69, 104>>, <<101, 72>>, <<69>>, <<101>>} -> t_EH
      [] t \in {<<72>>, <<104>>} -> t_H
      [] t \in {<<77>>, <<109>>} -> t_M
      [] OTHER -> t_L

\* C5: every returned mapping has overall_res, one of EH, H, M, L: the code of a
\* recognized overall_residual_risk_level (any letter case, E meaning EH) and "L"
\* when the level is absent, empty or unrecognized; subtasks [] with no overall
\* level gives overall_res = "L" and no hazard-table row key.
C5_OverallRiskDefaultsLow ==
    bf.state = "returned" =>
        /\ "overall_res" \in DOMAIN bf.fields
        /\ bf.fields["overall_res"] \in {t_EH, t_H, t_M, t_L}
        /\ bf.fields["overall_res"]
              = ExpectedOverall(TextOf(At(draw_data, <<"overall_residual_risk_level">>)))
        /\ (/\ At(draw_data, <<"subtasks">>) = EmptyList
            /\ At(draw_data, <<"overall_residual_risk_level">>) = Absent)
           => /\ bf.fields["overall_res"] = t_L
              /\ DOMAIN bf.fields \cap RowKeys(1..MaxSubtasks) = {}

C5_Witness ==
    /\ bf.state = "returned"
    /\ At(draw_data, <<"subtasks">>) = EmptyList
    /\ At(draw_data, <<"overall_residual_risk_level">>) = Absent
    /\ bf.fields["overall_res"] = t_L

\* C7: in every completed row whose control.values is a non-empty list v1..vm,
\* control_N is the lines "- " + normalize_text(vi) joined by single newlines, with
\* no trailing newline, whatever the values are.
C7_ControlIsBulletedList ==
    \A k \in 1..RowsDone :
        LET vals == At(InputSubtasks[k], <<"control", "values">>)
        IN  (vals # Absent /\ vals.k = "list" /\ vals.l # <<>>) =>
                /\ Key("control_", k) \in DOMAIN bf.fields
                /\ bf.fields[Key("control_", k)]
                      = Join(<<NEWLINE>>,
                             [i \in 1..Len(vals.l) |-> <<HYPHEN, SPACE>> \o normalize_text(vals.l[i])])

----------------------------------------------------------------------------
(* Properties of the run *)

AfterFill == pc \in {"refresh", "print", "done"}

\* C8: in every completed row, how_N (who_N) is assigned exactly when the list
\* how_to_implement.how.values (who.values) is non-empty, and is then its normalized
\* values joined by newlines in input order; a key that is omitted leaves the
\* template's text in the written document, an assigned one replaces it.
C8_HowWhoOmittedWhenEmpty ==
    /\ \A k \in 1..RowsDone :
          \A part \in {<<"how_", "how">>, <<"who_", "who">>} :
              LET src == At(InputSubtasks[k], <<"how_to_implement", part[2], "values">>)
                  key == Key(part[1], k)
              IN  (src \in {Absent, None} \/ src.k = "list") =>
                      IF src \notin {Absent, None} /\ src.l # <<>>
                      THEN /\ key \in DOMAIN bf.fields
                           /\ bf.fields[key]
                                 = Join(<<NEWLINE>>, [i \in 1..Len(src.l) |-> normalize_text(src.l[i])])
                      ELSE key \notin DOMAIN bf.fields
    /\ AfterFill =>
          \A i \in DOMAIN annots :
              annots[i].T \in RowKeys(1..MAX_ROWS) \ DOMAIN bf.fields
                  => annots[i].V = env.template.annots[i].V

C8_Witness ==
    /\ AfterFill
    /\ \E k \in 1..Min(2, Len(InputSubtasks)) :
          /\ At(InputSubtasks[k], <<"how_to_implement", "how", "values">>) = EmptyList
          /\ Key("how_", k) \notin DOMAIN bf.fields
          /\ Key("who_", k) \in DOMAIN bf.fields
          /\ \E i \in DOMAIN annots :
                annots[i].T = Key("how_", k) /\ annots[i].V = t_Brief
          /\ \E i \in DOMAIN annots :
                annots[i].T = Key("who_", k) /\ annots[i].V = bf.fields[Key("who_", k)]

ConfigError == ~env.inputExists \/ ~env.templateExists \/ ~env.acroForm

\* C9: when the input JSON is missing, the template is missing or the template has
\* no AcroForm, the run never opens the output path, writes nothing, prints no
\* success line, and stops only in the error state.
C9_ConfigErrorIsFatalBeforeWrite ==
    ConfigError =>
        /\ ~out.opened
        /\ out.file # "written"
        /\ out.stdout = <<>>
        /\ ~AfterFill
        /\ pc = "failed" => out.error # "none"
        /\ pc # "failed" => ENABLED Next

C9_Witness ==
    /\ pc = "failed"
    /\ env.inputExists /\ env.templateExists /\ ~env.acroForm
    /\ bf.state = "returned"
    /\ out.error = "AttributeError"
    /\ out.file = "stale"

\* the fully-qualified selection token of a value
Token(val) == IF val # <<>> /\ val[1] = 47 THEN val ELSE <<47>> \o val

\* the button fields of the template that the mapping assigns
AssignedButtons ==
    { name \in DOMAIN env.template.fields :
        env.template.fields[name].FT = "/Btn" /\ name \in DOMAIN bf.fields }

\* C10 as stated: after fill_pdf, every widget bound to an assigned button field has
\* /AS equal to the selection token when the widget defines an appearance for it,
\* and /Off otherwise; no widget of the group is left in another state.
C10_EveryWidgetOnTokenOrOff ==
    AfterFill =>
        \A i \in DOMAIN annots :
            annots[i].T \in AssignedButtons =>
                annots[i].AS = IF Token(bf.fields[annots[i].T]) \in annots[i].N
                               THEN Token(bf.fields[annots[i].T])
                               ELSE t_Off

\* C10 amended: that holds of every widget of the field that has a normal-appearance
\* dictionary (/AP with /N); a widget without /AP or without /AP/N is skipped and
\* keeps the /AS the template gave it.
C10_WidgetsWithAppearancesOnTokenOrOff ==
    AfterFill =>
        \A i \in DOMAIN annots :
            annots[i].T \in AssignedButtons =>
                IF annots[i].AP = "N"
                THEN annots[i].AS = IF Token(bf.fields[annots[i].T]) \in annots[i].N
                                    THEN Token(bf.fields[annots[i].T])
                                    ELSE t_Off
                ELSE annots[i].AS = env.template.annots[i].AS

C10_Witness ==
    /\ AfterFill
    /\ bf.fields["overall_res"] = t_L
    /\ \E i \in DOMAIN annots :
          /\ annots[i].T = "overall_res" /\ annots[i].AP = "N"
          /\ env.template.annots[i].AS = <<47>> \o t_EH
          /\ annots[i].AS = t_Off
    /\ \E i \in DOMAIN annots :
          /\ annots[i].T = "overall_res" /\ annots[i].AP = "none"
          /\ annots[i].AS = <<47>> \o t_EH

====
